---- MODULE Spec2Model ----
(***************************************************************************)
(* Model of fabfile.py, the Fabric task file of uacl_cs.                   *)
(*                                                                         *)
(* The module body (import of the optional fabfile_local, then the global  *)
(* settings) is executed first; afterwards one task is run by the fab      *)
(* front end.  A task is interpreted statement by statement on a call      *)
(* stack.  Every shell invocation goes through local(), whose return code  *)
(* is chosen by the environment; a non-zero code makes Fabric abort, which *)
(* raises SystemExit through the call stack.                               *)
(*                                                                         *)
(* Strings are TLA+ strings; \o is Python's + / str.format splicing.       *)
(***************************************************************************)
EXTENDS Integers, Sequences, FiniteSets, TLC

VARIABLES
    phase,          \* "import", "settings", "ready", "running", "done"
    fabfile_local,  \* the optional module: [present, defs]
    globals,        \* module globals holding the tool paths
    task,           \* the task the fab front end was asked to run
    stack,          \* call stack of frames [fn, pc, i, j, arg]
    issued,         \* shell invocations made by local(): [cmd, rc, by]
    calls,          \* function entries in order: [fn, depth]
    removed,        \* rmtree attempts in order: [path, found]
    fs,             \* build-output directories that exist
    outcome         \* "none", "ok", "aborted"

vars == <<phase, fabfile_local, globals, task, stack, issued, calls, removed, fs, outcome>>

----------------------------------------------------------------------------
(* Python / os.path helpers *)

\* Path separator of the platform the script targets (it runs .bat files).
sep == "\\"

\* Python's None, kept apart from every string the script uses.
None == "<None>"

\* Truth value of an optional string: None and '' are both false.
Truthy(v) == v # None /\ v # ""

\* os.path.join(a, b) for a relative b.
os_path_join(a, b) ==
    IF a = "" THEN b
    ELSE IF SubSeq(a, Len(a), Len(a)) = sep THEN a \o b
    ELSE a \o sep \o b

----------------------------------------------------------------------------
(* Module-level settings, fabfile.py lines 18-26 *)

ToolNames == {"ms_build_path", "nunit_path", "nuget_path"}

DefaultPath(n) ==
    CASE n = "ms_build_path" -> "C:\\Program Files (x86)\\MSBuild\\14.0\\Bin"
      [] n = "nunit_path"    -> "C:\\Program Files (x86)\\NUnit.org\\nunit-console"
      [] n = "nuget_path"    -> "C:\\Program Files (x86)\\NuGet"

impl_projects == <<"MultiClientConsole", "ServerConsole", "OfficeConsole",
                   "UaclServer", "UaclClient", "UaclUtils">>

test_projects == <<"TestServerConsole", "TestOfficeConsole", "TestUaclClient",
                   "TestUaclUtils">>

projects == impl_projects \o test_projects

solution == "ua_utilities"

\* The sub-folders clean() removes from each project, in loop order.
sub_folders == <<"obj", "bin">>

\* The tasks the fab front end can be asked to run (@task functions).
Tasks == {"restart", "start", "start_sc", "start_oc", "start_mcc", "stop",
          "rebuild", "update_env", "build", "release", "clean", "test"}

----------------------------------------------------------------------------
(* Environment *)

\* Largest return code the environment is let to give.
MaxRetCode == 1

\* Return codes an external process may give.
RetCodes == 0..MaxRetCode

\* A value fabfile_local may give a tool path.
LocalPath(n) == "D:\\tools\\" \o n

\* The optional module: absent, or present and defining some of the names.
LocalModules ==
    {[present |-> FALSE, defs |-> [n \in {} |-> ""]]} \cup
    {[present |-> TRUE, defs |-> [n \in S |-> LocalPath(n)]] : S \in SUBSET ToolNames}

\* Every build-output directory clean() may meet.
OutputDirs ==
    {os_path_join(projects[i], sub_folders[j]) :
        i \in 1..Len(projects), j \in 1..Len(sub_folders)}

\* Initial states of the file system: everything built, nothing built, or
\* one directory missing.
InitialTrees == {OutputDirs, {}} \cup {OutputDirs \ {d} : d \in OutputDirs}

----------------------------------------------------------------------------
(* Call stack *)

Frame(fn, arg) == [fn |-> fn, pc |-> 1, i |-> 1, j |-> 1, arg |-> arg]

Top == stack[Len(stack)]

Pop(stk) == SubSeq(stk, 1, Len(stk) - 1)

\* The names of the functions on the stack, outermost first.
Chain(stk) == [k \in 1..Len(stk) |-> stk[k].fn]

Running(fn) == phase = "running" /\ Len(stack) > 0 /\ Top.fn = fn

\* Mutant: no try statement around the loop.
InTry_none(frame) == FALSE

\* The try block of test(): the loop over test_projects (lines 94-97).
InTry(frame) == frame.fn = "test" /\ frame.pc \in {2, 3}

\* Mutant: stop() placed inside the try block, so a caught exception skips it.
RECURSIVE Unwind_skips_stop(_)
Unwind_skips_stop(stk) ==
    IF stk = <<>> THEN <<>>
    ELSE IF stk[Len(stk)].fn = "test" /\ stk[Len(stk)].pc \in {2, 3}
         THEN [stk EXCEPT ![Len(stk)].pc = 5]
    ELSE Unwind_skips_stop(Pop(stk))

\* Mutant: the try statement inside the loop body, so the loop goes on.
RECURSIVE Unwind_per_iteration(_)
Unwind_per_iteration(stk) ==
    IF stk = <<>> THEN <<>>
    ELSE IF stk[Len(stk)].fn = "test" /\ stk[Len(stk)].pc \in {2, 3}
         THEN [stk EXCEPT ![Len(stk)].pc = 3]
    ELSE Unwind_per_iteration(Pop(stk))

\* An exception raised in the callee of the top frame of stk: frames are
\* left until one is inside a try with a bare except, which resumes after
\* the try statement (except: pass, then stop()).
RECURSIVE Unwind(_)
Unwind(stk) ==
    IF stk = <<>> THEN <<>>
    ELSE IF InTry(stk[Len(stk)]) THEN [stk EXCEPT ![Len(stk)].pc = 4]
    ELSE Unwind(Pop(stk))

\* The top frame raises.
Raise ==
    /\ stack' = Unwind(Pop(stack))
    /\ outcome' = IF Unwind(Pop(stack)) = <<>> THEN "aborted" ELSE outcome
    /\ phase' = IF Unwind(Pop(stack)) = <<>> THEN "done" ELSE phase
    /\ calls' = calls

\* The top frame returns: its caller's statement is complete.
Return ==
    /\ stack' = IF Len(stack) = 1 THEN <<>>
                ELSE [Pop(stack) EXCEPT ![Len(stack) - 1].pc = @ + 1]
    /\ outcome' = IF Len(stack) = 1 THEN "ok" ELSE outcome
    /\ phase' = IF Len(stack) = 1 THEN "done" ELSE phase
    /\ calls' = calls

\* The top frame calls fn(arg).
Call(fn, arg) ==
    /\ stack' = Append(stack, Frame(fn, arg))
    /\ calls' = Append(calls, [fn |-> fn, depth |-> Len(stack) + 1])
    /\ UNCHANGED <<outcome, phase>>

\* The top frame moves on within its own body.
Goto(pc, i, j) ==
    /\ stack' = [stack EXCEPT ![Len(stack)] = [@ EXCEPT !.pc = pc, !.i = i, !.j = j]]
    /\ UNCHANGED <<outcome, phase, calls>>

\* One statement of a straight-line body of calls, or the return after the last.
S(fn, arg) == [fn |-> fn, arg |-> arg]

Do(stmts) ==
    IF Top.pc <= Len(stmts)
    THEN Call(stmts[Top.pc].fn, stmts[Top.pc].arg)
    ELSE Return

\* What a step that only moves control leaves alone.
Quiet == UNCHANGED <<fabfile_local, globals, task, issued, removed, fs>>

----------------------------------------------------------------------------
(* Module body *)

Init ==
    /\ phase = "import"
    /\ fabfile_local \in LocalModules
    /\ globals = [n \in {} |-> ""]
    /\ task = "none"
    /\ stack = <<>>
    /\ issued = <<>>
    /\ calls = <<>>
    /\ removed = <<>>
    /\ fs \in InitialTrees
    /\ outcome = "none"

\* try: from fabfile_local import *  except ImportError: pass
module_import ==
    /\ phase = "import"
    /\ globals' = IF fabfile_local.present THEN fabfile_local.defs ELSE globals
    /\ phase' = "settings"
    /\ UNCHANGED <<fabfile_local, task, stack, issued, calls, removed, fs, outcome>>

\* The assignments of the global settings, executed after the import.
module_settings ==
    /\ phase = "settings"
    /\ globals' = [n \in (DOMAIN globals) \cup ToolNames |->
                     IF n \in ToolNames THEN DefaultPath(n) ELSE globals[n]]
    /\ phase' = "ready"
    /\ UNCHANGED <<fabfile_local, task, stack, issued, calls, removed, fs, outcome>>

\* The fab front end resolves a bare task name and calls the task.
fab ==
    /\ phase = "ready"
    /\ \E t \in Tasks :
        /\ task' = t
        /\ stack' = <<Frame(t, <<>>)>>
        /\ calls' = <<[fn |-> t, depth |-> 1]>>
    /\ phase' = "running"
    /\ UNCHANGED <<fabfile_local, globals, issued, removed, fs, outcome>>

----------------------------------------------------------------------------
(* Shell invocation *)

\* Mutant: warn_only in force, a non-zero return code is only reported.
local_warn_only ==
    /\ Running("local")
    /\ \E rc \in RetCodes :
        /\ issued' = Append(issued, [cmd |-> Top.arg[1], rc |-> rc, by |-> Chain(stack)])
        /\ Return
    /\ UNCHANGED <<fabfile_local, globals, task, removed, fs>>

\* fabric.api.local(command): run the command; a non-zero return code aborts.
local ==
    /\ Running("local")
    /\ \E rc \in RetCodes :
        /\ issued' = Append(issued, [cmd |-> Top.arg[1], rc |-> rc, by |-> Chain(stack)])
        /\ IF rc = 0 THEN Return ELSE Raise
    /\ UNCHANGED <<fabfile_local, globals, task, removed, fs>>

----------------------------------------------------------------------------
(* Command construction *)

\* cmd_add = lambda cmd: build_cmd + ' {0}'.format(cmd) if cmd else build_cmd
cmd_add(build_cmd, cmd) ==
    IF Truthy(cmd) THEN build_cmd \o " " \o cmd ELSE build_cmd

\* Mutant: the lambda bound to the first value of build_cmd, so every
\* cmd_add starts again from the quoted executable.
ms_build_cmd_early_binding(path, sln, target, config, more) ==
    "\"" \o os_path_join(path, "MSBuild.exe") \o "\"" \o " " \o sln \o ".sln"

\* Mutant: the configuration flag added without the test of config;
\* format() renders a missing config as the text None.
ms_build_cmd_always_config(path, sln, target, config, more) ==
    LET c0 == "\"" \o os_path_join(path, "MSBuild.exe") \o "\""
        c1 == cmd_add(c0, more)
        c2 == cmd_add(c1, "/t:" \o target)
        c3 == cmd_add(c2, "/p:Configuration=" \o (IF config = None THEN "None" ELSE config))
    IN  cmd_add(c3, sln \o ".sln")

\* The command ms_build() hands to local(), built up as the code rebinds build_cmd.
ms_build_cmd(path, sln, target, config, more) ==
    LET exe == os_path_join(path, "MSBuild.exe")
        c0  == "\"" \o exe \o "\""
        c1  == cmd_add(c0, more)
        c2  == cmd_add(c1, "/t:" \o target)
        c3  == IF Truthy(config)
               THEN cmd_add(c2, "/p:Configuration=" \o config)
               ELSE c2
    IN  cmd_add(c3, sln \o ".sln")

\* Mutant: the manifest path not joined to the project directory.
restore_cmd_unjoined(path, p) ==
    "\"" \o os_path_join(path, "nuget.exe")
         \o "\" install -OutputDirectory packages " \o "packages.config"

\* The command update_packages() issues for project p.
restore_cmd(path, p) ==
    LET pm_path         == os_path_join(path, "nuget.exe")
        packages_config == os_path_join(p, "packages.config")
    IN  "\"" \o pm_path \o "\" install -OutputDirectory packages " \o packages_config

\* path_to_dll as test() computes it for test project t.
path_to_dll(t) ==
    LET path_to_test_lib ==
            os_path_join(os_path_join(os_path_join(".", t), "bin"), "Debug")
    IN  os_path_join(path_to_test_lib, t)

\* The command test_impl() issues.
nunit_cmd(path, dll) ==
    LET nunit == os_path_join(path, "nunit3-console.exe")
    IN  "\"" \o nunit \o "\" " \o dll \o ".dll"

\* Mutant: ignore_errors not honoured.
rmtree_strict(fsys, path, ignore_errors) ==
    IF path \in fsys
    THEN [fs |-> fsys \ {path}, raised |-> FALSE]
    ELSE [fs |-> fsys, raised |-> TRUE]

\* shutil.rmtree(path, ignore_errors) on the tree fsys: the tree left, and
\* whether OSError is raised (the directory is absent and errors count).
rmtree(fsys, path, ignore_errors) ==
    IF path \in fsys
    THEN [fs |-> fsys \ {path}, raised |-> FALSE]
    ELSE [fs |-> fsys, raised |-> ~ignore_errors]

----------------------------------------------------------------------------
(* Tasks *)

restart ==
    /\ Running("restart")
    /\ Do(<<S("stop", <<>>), S("rebuild", <<>>), S("start", <<>>)>>)
    /\ Quiet

start ==
    /\ Running("start")
    /\ Do(<<S("local", <<"tools\\start.bat">>)>>)
    /\ Quiet

start_sc ==
    /\ Running("start_sc")
    /\ Do(<<S("local", <<"tools\\start_application.bat ServerConsole">>)>>)
    /\ Quiet

start_oc ==
    /\ Running("start_oc")
    /\ Do(<<S("local", <<"tools\\start_application.bat OfficeConsole">>)>>)
    /\ Quiet

start_mcc ==
    /\ Running("start_mcc")
    /\ Do(<<S("local", <<"tools\\start_application.bat MultiClientConsole">>)>>)
    /\ Quiet

stop ==
    /\ Running("stop")
    /\ Do(<<S("local", <<"tools\\stop.bat">>)>>)
    /\ Quiet

\* Mutant: the packages restored before the clean.
rebuild_swapped ==
    /\ Running("rebuild")
    /\ Do(<<S("update_env", <<>>), S("clean", <<>>), S("build", <<>>)>>)
    /\ Quiet

rebuild ==
    /\ Running("rebuild")
    /\ Do(<<S("clean", <<>>), S("update_env", <<>>), S("build", <<>>)>>)
    /\ Quiet

update_env ==
    /\ Running("update_env")
    /\ Do(<<S("update_packages", <<>>)>>)
    /\ Quiet

\* ms_build(solution=solution, config='Debug'); target and more take their defaults.
build ==
    /\ Running("build")
    /\ Do(<<S("ms_build", <<solution, "Build", "Debug", "/m">>)>>)
    /\ Quiet

release ==
    /\ Running("release")
    /\ Do(<<S("ms_build", <<solution, "Build", "Release", "/m">>)>>)
    /\ Quiet

\* pc 1: ms_build(solution=solution, target="Clean"); pc 2: the two nested
\* loops, one rmtree per step; then the return.
clean ==
    /\ Running("clean")
    /\ IF Top.pc = 1
       THEN /\ Call("ms_build", <<solution, "Clean", None, "/m">>)
            /\ UNCHANGED <<removed, fs>>
       ELSE IF Top.i <= Len(projects)
       THEN LET path == os_path_join(projects[Top.i], sub_folders[Top.j])
                r    == rmtree(fs, path, TRUE)
            IN  /\ removed' = Append(removed, [path |-> path, found |-> path \in fs])
                /\ fs' = r.fs
                /\ IF r.raised THEN Raise
                   ELSE IF Top.j < Len(sub_folders)
                   THEN Goto(2, Top.i, Top.j + 1)
                   ELSE Goto(2, Top.i + 1, 1)
       ELSE /\ Return
            /\ UNCHANGED <<removed, fs>>
    /\ UNCHANGED <<fabfile_local, globals, task, issued>>

\* pc 1: start_sc(); pc 2, 3: the loop inside try; pc 4: stop(); pc 5: return.
test ==
    /\ Running("test")
    /\ CASE Top.pc = 1 -> Call("start_sc", <<>>)
         [] Top.pc = 2 ->
                IF Top.i <= Len(test_projects)
                THEN Call("test_impl", <<path_to_dll(test_projects[Top.i])>>)
                ELSE Goto(4, Top.i, Top.j)
         [] Top.pc = 3 -> Goto(2, Top.i + 1, Top.j)
         [] Top.pc = 4 -> Call("stop", <<>>)
         [] OTHER -> Return
    /\ Quiet

test_impl ==
    /\ Running("test_impl")
    /\ Do(<<S("local", <<nunit_cmd(globals["nunit_path"], Top.arg[1])>>)>>)
    /\ Quiet

ms_build ==
    /\ Running("ms_build")
    /\ Do(<<S("local", <<ms_build_cmd(globals["ms_build_path"], Top.arg[1],
                                      Top.arg[2], Top.arg[3], Top.arg[4])>>)>>)
    /\ Quiet

\* pc 1: the loop body for projects[i]; pc 2: the next iteration.
update_packages ==
    /\ Running("update_packages")
    /\ IF Top.pc = 1
       THEN IF Top.i <= Len(projects)
            THEN Call("local", <<restore_cmd(globals["nuget_path"], projects[Top.i])>>)
            ELSE Return
       ELSE Goto(1, Top.i + 1, Top.j)
    /\ Quiet

Next ==
    \/ module_import \/ module_settings \/ fab \/ local
    \/ restart \/ start \/ start_sc \/ start_oc \/ start_mcc \/ stop
    \/ rebuild \/ update_env \/ build \/ release \/ clean
    \/ test \/ test_impl \/ ms_build \/ update_packages

Spec == Init /\ [][Next]_vars
----------------------------------------------------------------------------
(* Vocabulary of the properties *)

Done == phase = "done"

StartsWith(str, pre) == Len(pre) <= Len(str) /\ SubSeq(str, 1, Len(pre)) = pre

EndsWith(str, suf) ==
    Len(suf) <= Len(str) /\ SubSeq(str, Len(str) - Len(suf) + 1, Len(str)) = suf

\* The positions at which sub occurs in str.
Occurrences(str, sub) ==
    {k \in 1..(Len(str) - Len(sub) + 1) : SubSeq(str, k, k + Len(sub) - 1) = sub}

Has(str, sub) == Occurrences(str, sub) # {}

IsPrefix(a, b) == Len(a) <= Len(b) /\ \A k \in 1..Len(a) : a[k] = b[k]

\* The invocation e was made with fn on the call stack.
By(e, fn) == \E k \in 1..Len(e.by) : e.by[k] = fn

IsStop(e) == e.cmd = "tools\\stop.bat"
IsStartSc(e) == e.cmd = "tools\\start_application.bat ServerConsole"
IsNunit(e) == By(e, "test_impl")
IsRestore(e) == By(e, "update_packages")
IsMsBuild(e) == By(e, "ms_build")

Stops == {k \in 1..Len(issued) : IsStop(issued[k])}
Nunits == SelectSeq(issued, IsNunit)
Restores == SelectSeq(issued, IsRestore)

Called(fn) == \E k \in 1..Len(calls) : calls[k].fn = fn
Active(fn) == \E k \in 1..Len(stack) : stack[k].fn = fn
Finished(fn) == Called(fn) /\ ~Active(fn)

\* The functions entered down to depth d, local() left out, in order.
Entered(d) ==
    LET sel == SelectSeq(calls, LAMBDA c : c.depth <= d /\ c.fn # "local")
    IN  [k \in 1..Len(sel) |-> sel[k].fn]

\* The documented order of the sequences.
RebuildOrder == <<"rebuild", "clean", "update_env", "build">>
RestartOrder == <<"restart", "stop", "rebuild", "clean", "update_env", "build", "start">>

PlaceIn(order, fn) == CHOOSE k \in 1..Len(order) : order[k] = fn

\* The constituent task of a sequence on whose behalf e was issued.
StepOf(e) == IF e.by[2] = "rebuild" THEN e.by[3] ELSE e.by[2]

\* The tool path a module override would have put in force.
Intended(n) ==
    IF fabfile_local.present /\ n \in DOMAIN fabfile_local.defs
    THEN fabfile_local.defs[n]
    ELSE DefaultPath(n)

\* The rmtree attempts clean() makes when nothing stops it, in loop order.
AllRemovals ==
    [k \in 1..(Len(projects) * Len(sub_folders)) |->
        os_path_join(projects[((k - 1) \div Len(sub_folders)) + 1],
                     sub_folders[((k - 1) % Len(sub_folders)) + 1])]

RemovedPaths == [k \in 1..Len(removed) |-> removed[k].path]

----------------------------------------------------------------------------
(* C1 *)

\* C1, as stated: every finished run of the test task has invoked the stop
\* script exactly once, as its last shell invocation.
C1_StopExactlyOnceEveryRun ==
    (task = "test" /\ Done) =>
        /\ Cardinality(Stops) = 1
        /\ IsStop(issued[Len(issued)])

\* C1, amended: in a run of the test task the stop script is invoked at most
\* once, only after start_sc succeeded and after every test-runner
\* invocation of the run; and every finished run in which start_sc succeeded
\* has invoked it exactly once, test-runner failures included.
C1_StopOnceAfterLoopWhenStarted ==
    task = "test" =>
        /\ Cardinality(Stops) <= 1
        /\ \A k \in Stops :
              /\ k = Len(issued)
              /\ k > 1
              /\ IsStartSc(issued[1]) /\ issued[1].rc = 0
              /\ \A m \in 2..(k - 1) : IsNunit(issued[m])
        /\ (Done /\ issued[1].rc = 0) => Cardinality(Stops) = 1

C1_Witness ==
    /\ task = "test" /\ Done
    /\ Cardinality(Stops) = 1
    /\ \E k \in 1..Len(issued) : IsNunit(issued[k]) /\ issued[k].rc # 0

----------------------------------------------------------------------------
(* C2 *)

\* C2: in rebuild and restart the constituent tasks are entered in the
\* documented order; the shell invocations follow that order; an invocation
\* that returns non-zero is the last one of the run and ends it aborted; a
\* run that ends well has entered every constituent task.
C2_SequencesOrderedAndAborting ==
    /\ task = "rebuild" =>
          /\ IsPrefix(Entered(2), RebuildOrder)
          /\ (Done /\ outcome = "ok") => Entered(2) = RebuildOrder
          /\ \A k \in 1..Len(issued) : \A m \in k..Len(issued) :
                PlaceIn(RebuildOrder, StepOf(issued[k]))
                    <= PlaceIn(RebuildOrder, StepOf(issued[m]))
    /\ task = "restart" =>
          /\ IsPrefix(Entered(3), RestartOrder)
          /\ (Done /\ outcome = "ok") => Entered(3) = RestartOrder
          /\ \A k \in 1..Len(issued) : \A m \in k..Len(issued) :
                PlaceIn(RestartOrder, StepOf(issued[k]))
                    <= PlaceIn(RestartOrder, StepOf(issued[m]))
    /\ task \in {"rebuild", "restart"} =>
          /\ \A k \in 1..Len(issued) :
                issued[k].rc # 0 =>
                    k = Len(issued) /\ Done /\ outcome = "aborted" /\ stack = <<>>
          /\ (Done /\ outcome = "ok") => \A k \in 1..Len(issued) : issued[k].rc = 0

C2_Witness ==
    /\ task = "restart" /\ Done /\ outcome = "aborted"
    /\ By(issued[Len(issued)], "update_env")
    /\ Entered(3) = SubSeq(RestartOrder, 1, 5)

----------------------------------------------------------------------------
(* C3 *)

\* C3, as stated: once clean has run, removal has been attempted exactly once
\* for the obj and for the bin directory of every project.
C3_EveryDirectoryAttempted ==
    Finished("clean") => RemovedPaths = AllRemovals

\* C3, amended: removal is attempted only after the Clean invocation of the
\* build tool has returned zero, never twice for a directory and in loop
\* order; once clean has run and that invocation returned zero, every
\* project's obj and bin have been attempted exactly once; an absent
\* directory does not end the run.
C3_AttemptedOnceAfterCleanSucceeds ==
    /\ IsPrefix(RemovedPaths, AllRemovals)
    /\ removed # <<>> =>
          \E k \in 1..Len(issued) :
              /\ By(issued[k], "clean") /\ issued[k].rc = 0
              /\ Has(issued[k].cmd, " /t:Clean ")
    /\ (Finished("clean") /\ \E k \in 1..Len(issued) :
                                By(issued[k], "clean") /\ issued[k].rc = 0)
          => RemovedPaths = AllRemovals
    /\ outcome = "aborted" => issued[Len(issued)].rc # 0
    /\ \A k \in 1..Len(removed) :
          removed[k].found = FALSE =>
              (k < Len(removed) \/ Active("clean") \/ k = Len(AllRemovals))

C3_Witness ==
    /\ task = "clean" /\ Done /\ outcome = "ok"
    /\ RemovedPaths = AllRemovals
    /\ \E k \in 1..Len(removed) : \E m \in (k + 1)..Len(removed) :
          ~removed[k].found /\ removed[m].found

----------------------------------------------------------------------------
(* C4 *)

\* C4, as stated: every command built from a tool path uses the value the
\* local module gives that path when it defines it, the default otherwise.
C4_OverrideInForce ==
    \A k \in 1..Len(issued) :
        /\ IsMsBuild(issued[k]) =>
              StartsWith(issued[k].cmd, "\"" \o Intended("ms_build_path") \o sep)
        /\ IsRestore(issued[k]) =>
              StartsWith(issued[k].cmd, "\"" \o Intended("nuget_path") \o sep)
        /\ IsNunit(issued[k]) =>
              StartsWith(issued[k].cmd, "\"" \o Intended("nunit_path") \o sep)

----------------------------------------------------------------------------
(* C5 *)

\* C5, as stated: every finished run of the test task ends well.
C5_TestAlwaysSucceeds ==
    (task = "test" /\ Done) => outcome = "ok"

\* C5, amended: a finished run of the test task ends well exactly when its
\* start_sc and stop invocations returned zero; the test-runner invocations
\* have no part in the outcome.
C5_TestOutcomeIgnoresTestRunner ==
    (task = "test" /\ Done) =>
        (outcome = "ok" <=>
            \A k \in 1..Len(issued) : ~IsNunit(issued[k]) => issued[k].rc = 0)

C5_Witness ==
    /\ task = "test" /\ Done /\ outcome = "ok"
    /\ \E k \in 1..Len(issued) : IsNunit(issued[k]) /\ issued[k].rc # 0

----------------------------------------------------------------------------
(* C6 *)

\* The k-th restore invocation is the one for the k-th project: it names
\* the restore tool and, as its last argument, that project's manifest.
RestoreInOrder ==
    /\ Len(Restores) <= Len(projects)
    /\ \A k \in 1..Len(Restores) :
          /\ StartsWith(Restores[k].cmd,
                        "\"" \o globals["nuget_path"] \o sep \o "nuget.exe\" install ")
          /\ EndsWith(Restores[k].cmd,
                      " packages " \o projects[k] \o sep \o "packages.config")

\* C6, as stated: once update_packages has run, one restore invocation has
\* been issued per project of the full list, in list order, each for that
\* project's own packages.config.
C6_OneRestorePerProject ==
    Finished("update_packages") =>
        RestoreInOrder /\ Len(Restores) = Len(projects)

\* C6, amended: the restore invocations issued are, in list order, those
\* of an initial part of the full project list, one per project and each
\* for that project's own packages.config; the part is the whole list once
\* update_packages has run with no restore invocation failing.
C6_OneRestorePerProjectUnlessFailed ==
    /\ RestoreInOrder
    /\ (Finished("update_packages") /\ \A k \in 1..Len(Restores) : Restores[k].rc = 0)
          => Len(Restores) = Len(projects)

C6_Witness ==
    /\ task = "update_env" /\ Done /\ outcome = "ok"
    /\ Len(Restores) = Len(projects)

----------------------------------------------------------------------------
(* C7 *)

\* C7: the command the build task hands to the shell is the quoted
\* executable, /m, /t:Build, /p:Configuration=Debug and ua_utilities.sln,
\* in that order with single spaces.
C7_DebugBuildCommand ==
    \A k \in 1..Len(issued) :
        By(issued[k], "build") =>
            issued[k].cmd =
                "\"" \o globals["ms_build_path"] \o "\\MSBuild.exe\""
                    \o " /m /t:Build /p:Configuration=Debug ua_utilities.sln"

C7_Witness ==
    /\ task = "build" /\ Done
    /\ Len(issued) = 1 /\ By(issued[1], "build")

----------------------------------------------------------------------------
(* C8 *)

\* C8: the release command holds the one segment /p:Configuration=Release;
\* the clean command holds /t:Clean and no /p:Configuration= at all; the
\* segment is there exactly for the tasks that supply a configuration.
C8_ConfigurationSegment ==
    \A k \in 1..Len(issued) :
        IsMsBuild(issued[k]) =>
            /\ By(issued[k], "release") =>
                  /\ Has(issued[k].cmd, " /p:Configuration=Release ")
                  /\ Cardinality(Occurrences(issued[k].cmd, "/p:Configuration=")) = 1
            /\ By(issued[k], "clean") =>
                  /\ Has(issued[k].cmd, " /t:Clean ")
                  /\ ~Has(issued[k].cmd, "/p:Configuration=")
            /\ Has(issued[k].cmd, "/p:Configuration=")
                  <=> (By(issued[k], "build") \/ By(issued[k], "release"))

C8_Witness ==
    /\ task = "release" /\ Done /\ Len(issued) = 1
    /\ By(issued[1], "release")
    /\ Has(issued[1].cmd, "/p:Configuration=Release")

----------------------------------------------------------------------------
(* C9 *)

\* C9: a restore invocation that fails is the last shell invocation of the
\* run, which ends aborted at once, with neither build nor any later task
\* of the sequence entered.
C9_FailedRestoreAbortsAll ==
    \A k \in 1..Len(issued) :
        (IsRestore(issued[k]) /\ issued[k].rc # 0) =>
            /\ k = Len(issued)
            /\ Done /\ outcome = "aborted" /\ stack = <<>>
            /\ ~Called("build") /\ ~Called("start")
            /\ \A m \in 1..Len(issued) : ~By(issued[m], "build")

C9_Witness ==
    /\ task = "rebuild" /\ Done
    /\ Len(Restores) = 3
    /\ Restores[3].rc # 0

----------------------------------------------------------------------------
(* C10 *)

\* The k-th test-runner invocation is for the k-th test project's assembly.
NunitInOrder ==
    /\ Len(Nunits) <= Len(test_projects)
    /\ \A k \in 1..Len(Nunits) :
          EndsWith(Nunits[k].cmd,
                   "\" ." \o sep \o test_projects[k] \o sep \o "bin" \o sep \o "Debug"
                        \o sep \o test_projects[k] \o ".dll")

\* A failed test-runner invocation is followed by the stop script and by
\* nothing else.
StopFollowsFailure ==
    \A k \in 1..Len(issued) :
        (IsNunit(issued[k]) /\ issued[k].rc # 0) =>
            /\ k + 1 >= Len(issued)
            /\ k + 1 = Len(issued) => IsStop(issued[k + 1])
            /\ Done => k + 1 = Len(issued)

\* C10, as stated: a failed test-runner invocation ends the loop, the stop
\* script comes next, and the runner has been invoked for every test project
\* only if no invocation failed.
C10_LoopEndsAtFirstFailure ==
    task = "test" =>
        /\ NunitInOrder
        /\ StopFollowsFailure
        /\ Len(Nunits) = Len(test_projects) =>
              \A k \in 1..Len(Nunits) : Nunits[k].rc = 0

\* C10, amended: a failed test-runner invocation ends the loop and the stop
\* script comes next; the runner has been invoked for every test project
\* only if no invocation before the last project's failed, and is invoked
\* for every one of them when start_sc succeeds and no invocation fails.
C10_LoopEndsAtFirstFailureButLast ==
    task = "test" =>
        /\ NunitInOrder
        /\ StopFollowsFailure
        /\ \A k \in 1..(Len(Nunits) - 1) : Nunits[k].rc = 0
        /\ (Done /\ issued[1].rc = 0 /\ \A k \in 1..Len(Nunits) : Nunits[k].rc = 0)
              => Len(Nunits) = Len(test_projects)

C10_Witness ==
    /\ task = "test" /\ Done
    /\ Len(Nunits) = 2 /\ Nunits[2].rc # 0
    /\ Len(issued) = 4 /\ IsStop(issued[4])
====
